---- MODULE Spec2Model ----
(***************************************************************************)
(* A model of pybindgen's class-binding engine (src/pybindgen/cppclass.py). *)
(*                                                                         *)
(* Two layers are modelled:                                                *)
(*  - the generator: class descriptors (CppClass), their registration      *)
(*    calls and generate(), whose output is kept as the ordered list of    *)
(*    items written to the code sink, to the module's after_init block,    *)
(*    to the module header and to the slot table;                          *)
(*  - the generated code at run time: the statements the value marshalers  *)
(*    emit into a wrapper and the emitted tp_dealloc function, executed    *)
(*    over a heap of native instances and a set of adapters (PyObject      *)
(*    structs holding an obj pointer).                                     *)
(*                                                                         *)
(* Python's None is the string "None" for names and symbols, 0 for a       *)
(* class reference and the empty sequence for typeid_map (a typeid_map     *)
(* that is a list always holds the root itself, so it is never empty).     *)
(* settings.name_prefix is taken as the empty string.  Methods and         *)
(* attributes are not registered: the method table and the getset tables   *)
(* are generated empty, and no metaclass is needed.                        *)
(***************************************************************************)
EXTENDS Naturals, Sequences, FiniteSets, TLC

\* Bounds of the model.
MaxClasses == 3      \* class descriptors constructed
MaxCtors == 1        \* constructors registered on one class
MaxParams == 1       \* parameters of a registered constructor
MaxUserSlots == 1    \* classes whose deallocation slot the user overrides
RunClasses == 2      \* classes of a run-time configuration
MaxObjs == 2         \* native instances allocated (heap addresses)
MaxAdapters == 2     \* adapters alive at a time
MaxRc == 2           \* reference count of a native instance

None == "None"

VARIABLES
    classes,    \* the CppClass objects, in construction order (index = identity)
    call,       \* the last CppClass(...) call: its hook arguments, and whether it raised
    gen,        \* per class: what its generate() call produced
    heap,       \* run time: the native instances, by address
    adapters,   \* run time: the adapters (PyObject structs with an obj pointer)
    last,       \* run time: what the last generated function executed did
    fault       \* run time: the generated code ran into undefined behaviour

vars == <<classes, call, gen, heap, adapters, last, fault>>
runtime == <<heap, adapters, last, fault>>

ClassIds == 1..MaxClasses

\* The name of the k-th class constructed.
ClassName(k) == "C" \o ToString(k)

Stmt(op, a, b) == [op |-> op, a |-> a, b |-> b]

Item(dest, kind, a, b, c, body) ==
    [dest |-> dest, kind |-> kind, a |-> a, b |-> b, c |-> c, body |-> body]

EmptySlots == [s \in {} |-> ""]

\* self.slots.setdefault(key, value) during a generation: g holds the slot
\* table and the items written so far, in the order written.
setdefault(g, key, value) ==
    IF key \in DOMAIN g.slots THEN g
    ELSE [g EXCEPT !.slots = @ @@ (key :> value)]

Emit(g, item) == [g EXCEPT !.out = Append(@, item)]

-----------------------------------------------------------------------------
(* CppClass.__init__ and the narrowing registry *)

RECURSIVE get_type_narrowing_root(_, _)
get_type_narrowing_root(cs, c) ==
    IF cs[c].parent # 0 /\ cs[cs[c].parent].automatic_type_narrowing
    THEN get_type_narrowing_root(cs, cs[c].parent)
    ELSE c

\* A root that appended to the registry of its parent instead of walking up.
register_typeid_Mutant(cs, c) ==
    IF cs[c].parent = 0 \/ ~cs[cs[c].parent].automatic_type_narrowing
    THEN [cs EXCEPT ![c].typeid_map = <<c>>,
                    ![c].typeid_map_name = cs[c].pystruct \o "__typeid_map"]
    ELSE [cs EXCEPT ![cs[c].parent].typeid_map = Append(@, c)]

_register_typeid(cs, c) ==
    LET root == get_type_narrowing_root(cs, c) IN
    IF root = c
    THEN [cs EXCEPT ![c].typeid_map = <<c>>,
                    ![c].typeid_map_name = cs[c].pystruct \o "__typeid_map"]
    ELSE [cs EXCEPT ![root].typeid_map = Append(@, c)]

\* A variant that lets an increment hook through without a decrement hook.
HooksAssertion_Mutant(incref_method, decref_method) ==
    \/ incref_method = None /\ decref_method = None
    \/ incref_method # None

\* The both-or-neither assertion on the ref-count hooks.
HooksAssertion(incref_method, decref_method) ==
    \/ incref_method = None /\ decref_method = None
    \/ incref_method # None /\ decref_method # None

\* automatic_type_narrowing is "None", "True" or "False"; settings_atn is
\* settings.automatic_type_narrowing as read by this call.
CppClass__init__(cs, name, parent, incref_method, decref_method, automatic_type_narrowing, settings_atn) ==
    LET c == Len(cs) + 1
        inherit == incref_method = None /\ parent # 0
        atn == IF automatic_type_narrowing = None
               THEN (IF parent = 0 THEN settings_atn
                     ELSE cs[parent].automatic_type_narrowing)
               ELSE automatic_type_narrowing = "True"
        self == [name |-> name,
                 constructors |-> <<>>,
                 slots |-> EmptySlots,
                 pystruct |-> "Py" \o name,
                 pytypestruct |-> "Py" \o name \o "_Type",
                 parent |-> parent,
                 incref_method |-> IF inherit THEN cs[parent].incref_method
                                   ELSE incref_method,
                 decref_method |-> IF inherit THEN cs[parent].decref_method
                                   ELSE decref_method,
                 automatic_type_narrowing |-> atn,
                 typeid_map |-> <<>>,
                 typeid_map_name |-> None]
        cs1 == Append(cs, self)
    IN  IF atn THEN _register_typeid(cs1, c) ELSE cs1

add_constructor(cs, c, nparams) ==
    [cs EXCEPT ![c].constructors = Append(@, nparams)]

-----------------------------------------------------------------------------
(* generate() and its phases *)

\* What get_default_constructor returns: a registered constructor, None, or
\* (line 387) the parent's bound method object, which is not called.
get_default_constructor(cs, c) ==
    IF \E i \in 1..Len(cs[c].constructors) : cs[c].constructors[i] = 0
    THEN "constructor"
    ELSE IF cs[c].parent # 0 THEN "bound method"
    ELSE None

\* Symbols produced by the constructor emitters of cppmethod.py.
CppOverloadedConstructor_name(pystruct) == "_wrap_" \o pystruct \o "__tp_init"
CppConstructor_name(pystruct) == "_wrap_" \o pystruct \o "__tp_init"
CppNoConstructor_name(pystruct) == "_wrap_" \o pystruct \o "__tp_init"

\* A synthesized constructor bound to the parent class instead of this one.
generate_constructor_Mutant(cs, c, g) ==
    IF cs[c].constructors # <<>>
    THEN LET constructor == CppOverloadedConstructor_name(cs[c].pystruct)
             g1 == Emit(g, Item("code_sink", "constructor", constructor,
                                cs[c].name, "overload", <<>>))
         IN  [setdefault(g1, "tp_init", constructor)
                EXCEPT !.have_constructor = TRUE]
    ELSE LET parent_default_constructor ==
                 IF cs[c].parent = 0 THEN None
                 ELSE get_default_constructor(cs, cs[c].parent)
         IN  IF parent_default_constructor # None
             THEN LET constructor ==
                          CppConstructor_name(cs[cs[c].parent].pystruct)
                      g1 == Emit(g, Item("code_sink", "constructor",
                                         constructor, cs[cs[c].parent].name,
                                         "default", <<>>))
                  IN  [setdefault(g1, "tp_init", constructor)
                         EXCEPT !.have_constructor = TRUE]
             ELSE LET constructor == CppNoConstructor_name(cs[c].pystruct)
                      g1 == Emit(g, Item("code_sink", "constructor",
                                         constructor, cs[c].name,
                                         "disabled", <<>>))
                  IN  [setdefault(g1, "tp_init", constructor)
                         EXCEPT !.have_constructor = FALSE]

_generate_constructor(cs, c, g) ==
    IF cs[c].constructors # <<>>
    THEN LET constructor == CppOverloadedConstructor_name(cs[c].pystruct)
             g1 == Emit(g, Item("code_sink", "constructor", constructor,
                                cs[c].name, "overload", <<>>))
         IN  [setdefault(g1, "tp_init", constructor)
                EXCEPT !.have_constructor = TRUE]
    ELSE LET parent_default_constructor ==
                 IF cs[c].parent = 0 THEN None
                 ELSE get_default_constructor(cs, cs[c].parent)
         IN  IF parent_default_constructor # None
             THEN LET constructor == CppConstructor_name(cs[c].pystruct)
                      g1 == Emit(g, Item("code_sink", "constructor",
                                         constructor, cs[c].name,
                                         "default", <<>>))
                  IN  [setdefault(g1, "tp_init", constructor)
                         EXCEPT !.have_constructor = TRUE]
             ELSE LET constructor == CppNoConstructor_name(cs[c].pystruct)
                      g1 == Emit(g, Item("code_sink", "constructor",
                                         constructor, cs[c].name,
                                         "disabled", <<>>))
                  IN  [setdefault(g1, "tp_init", constructor)
                         EXCEPT !.have_constructor = FALSE]

_generate_methods(cs, c, g) ==
    LET table == cs[c].name \o "_methods"
        g1 == Emit(g, Item("code_sink", "method_table", table, "", "",
                           <<Stmt("{NULL, NULL, 0, NULL}", "", "")>>))
    IN  setdefault(g1, "tp_methods", table)

\* The statements of the generated tp_dealloc function body.
DeallocBody(have_constructor, decref_method) ==
    IF have_constructor
    THEN << Stmt("tmp = self->obj", "", ""),
            Stmt("self->obj = NULL", "", ""),
            IF decref_method = None
            THEN Stmt("delete tmp", "", "")
            ELSE Stmt("if (tmp) tmp->decref()", decref_method, ""),
            Stmt("PyObject_DEL(self)", "", "") >>
    ELSE << Stmt("PyObject_DEL(self)", "", "") >>

\* A destructor that releases the instance before clearing the stored
\* pointer, and deletes it whatever the ownership mode.
generate_destructor_Mutant(cs, c, g) ==
    IF "tp_dealloc" \in DOMAIN g.slots
    THEN g
    ELSE LET tp_dealloc_function_name ==
                 "_wrap_" \o cs[c].pystruct \o "__tp_dealloc"
             body == IF g.have_constructor
                     THEN << Stmt("tmp = self->obj", "", ""),
                             Stmt("delete tmp", "", ""),
                             Stmt("self->obj = NULL", "", ""),
                             Stmt("PyObject_DEL(self)", "", "") >>
                     ELSE << Stmt("PyObject_DEL(self)", "", "") >>
             g1 == Emit(g, Item("code_sink", "tp_dealloc",
                                tp_dealloc_function_name, cs[c].pystruct,
                                cs[c].name, body))
         IN  setdefault(g1, "tp_dealloc", tp_dealloc_function_name)

\* A variant that writes the destructor whatever the slot table holds.
generate_destructor_NoUserCheck_Mutant(cs, c, g) ==
    LET tp_dealloc_function_name ==
            "_wrap_" \o cs[c].pystruct \o "__tp_dealloc"
        g1 == Emit(g, Item("code_sink", "tp_dealloc",
                           tp_dealloc_function_name, cs[c].pystruct,
                           cs[c].name,
                           DeallocBody(g.have_constructor,
                                       cs[c].decref_method)))
    IN  setdefault(g1, "tp_dealloc", tp_dealloc_function_name)

_generate_destructor(cs, c, g) ==
    IF "tp_dealloc" \in DOMAIN g.slots
    THEN g
    ELSE LET tp_dealloc_function_name ==
                 "_wrap_" \o cs[c].pystruct \o "__tp_dealloc"
             g1 == Emit(g, Item("code_sink", "tp_dealloc",
                                tp_dealloc_function_name, cs[c].pystruct,
                                cs[c].name,
                                DeallocBody(g.have_constructor,
                                            cs[c].decref_method)))
         IN  setdefault(g1, "tp_dealloc", tp_dealloc_function_name)

\* The slots _generate_type_structure defaults to "NULL", in its order.
NullSlots ==
    << "tp_getattr", "tp_setattr", "tp_compare", "tp_repr",
       "tp_as_number", "tp_as_sequence", "tp_as_mapping",
       "tp_hash", "tp_call", "tp_str", "tp_getattro", "tp_setattro",
       "tp_as_buffer", "tp_traverse", "tp_clear", "tp_richcompare",
       "tp_iter", "tp_iternext", "tp_descr_get",
       "tp_descr_set", "tp_is_gc" >>

RECURSIVE DefaultNullSlots(_, _)
DefaultNullSlots(g, i) ==
    IF i > Len(NullSlots) THEN g
    ELSE DefaultNullSlots(setdefault(g, NullSlots[i], "NULL"), i + 1)

_generate_type_structure(cs, c, g) ==
    LET g1 == setdefault(g, "tp_basicsize",
                         "sizeof(" \o cs[c].pystruct \o ")")
        g2 == DefaultNullSlots(g1, 1)
        g3 == setdefault(g2, "tp_dictoffset", "0")
        g4 == setdefault(g3, "tp_alloc", "PyType_GenericAlloc")
        g5 == setdefault(g4, "tp_new", "PyType_GenericNew")
        g6 == setdefault(g5, "tp_free", "_PyObject_Del")
        g7 == setdefault(g6, "tp_weaklistoffset", "0")
        g8 == setdefault(g7, "tp_flags", "Py_TPFLAGS_DEFAULT")
        g9 == setdefault(g8, "tp_doc", "NULL")
        \* dict_: the slot table as the template is filled from it
        dict_ == g9.slots
    IN  Emit(g9, [dest |-> "code_sink", kind |-> "type_structure",
                  a |-> cs[c].pytypestruct, b |-> cs[c].name, c |-> "",
                  body |-> <<>>, fields |-> dict_])

\* An emitted table whose entries are all keyed by the root's own type.
generate_typeid_map_Mutant(cs, c, g) ==
    LET name == cs[c].typeid_map_name
        g1 == Emit(g, Item("header", "typeid_map", name, "", "", <<>>))
        RECURSIVE Entries(_, _)
        Entries(gg, i) ==
            IF i > Len(cs[c].typeid_map) THEN gg
            ELSE Entries(
                   Emit(gg, Item("after_init", "typeid_map_entry", name,
                                 cs[c].name,
                                 cs[cs[c].typeid_map[i]].pytypestruct, <<>>)),
                   i + 1)
    IN  Entries(g1, 1)

\* Each entry is  <map>[typeid(<b>).name()] = &<c>;
_generate_typeid_map(cs, c, g) ==
    LET name == cs[c].typeid_map_name
        g1 == Emit(g, Item("header", "typeid_map", name, "", "", <<>>))
        RECURSIVE Entries(_, _)
        Entries(gg, i) ==
            IF i > Len(cs[c].typeid_map) THEN gg
            ELSE Entries(
                   Emit(gg, Item("after_init", "typeid_map_entry", name,
                                 cs[cs[c].typeid_map[i]].name,
                                 cs[cs[c].typeid_map[i]].pytypestruct, <<>>)),
                   i + 1)
    IN  Entries(g1, 1)

\* A variant that emits the type structure before the destructor phase.
generate_Mutant(cs, c) ==
    LET g0 == [slots |-> cs[c].slots, out |-> <<>>, have_constructor |-> TRUE]
        \* instance getsets: no attribute is registered, the table is '0'
        g1 == setdefault(g0, "tp_getset", "0")
        g2 == Emit(g1, Item("after_init", "comment", cs[c].name, "", "", <<>>))
        g3 == IF cs[c].parent # 0
              THEN Emit(g2, Item("after_init", "tp_base", cs[c].pytypestruct,
                                 cs[cs[c].parent].pytypestruct, "", <<>>))
              ELSE g2
        g4 == Emit(g3, Item("after_init", "PyType_Ready", cs[c].pytypestruct,
                            "", "", <<>>))
        g5 == Emit(g4, Item("after_init", "PyModule_AddObject", cs[c].name,
                            cs[c].pytypestruct, "", <<>>))
        g6 == _generate_constructor(cs, c, g5)
        g7 == _generate_methods(cs, c, g6)
        g8 == _generate_type_structure(cs, c, g7)
        g9 == _generate_destructor(cs, c, g8)
    IN  IF cs[c].typeid_map # <<>>
        THEN _generate_typeid_map(cs, c, g9)
        ELSE g9

\* A variant that links a class to its narrowing root instead of its parent.
generate_BaseLink_Mutant(cs, c) ==
    LET g0 == [slots |-> cs[c].slots, out |-> <<>>, have_constructor |-> TRUE]
        \* instance getsets: no attribute is registered, the table is '0'
        g1 == setdefault(g0, "tp_getset", "0")
        g2 == Emit(g1, Item("after_init", "comment", cs[c].name, "", "", <<>>))
        g3 == IF cs[c].parent # 0
              THEN Emit(g2, Item("after_init", "tp_base", cs[c].pytypestruct,
                                 cs[get_type_narrowing_root(cs, c)].pytypestruct,
                                 "", <<>>))
              ELSE g2
        g4 == Emit(g3, Item("after_init", "PyType_Ready", cs[c].pytypestruct,
                            "", "", <<>>))
        g5 == Emit(g4, Item("after_init", "PyModule_AddObject", cs[c].name,
                            cs[c].pytypestruct, "", <<>>))
        g6 == _generate_constructor(cs, c, g5)
        g7 == _generate_methods(cs, c, g6)
        g8 == _generate_destructor(cs, c, g7)
        g9 == _generate_type_structure(cs, c, g8)
    IN  IF cs[c].typeid_map # <<>>
        THEN _generate_typeid_map(cs, c, g9)
        ELSE g9

generate(cs, c) ==
    LET g0 == [slots |-> cs[c].slots, out |-> <<>>, have_constructor |-> TRUE]
        \* instance getsets: no attribute is registered, the table is '0'
        g1 == setdefault(g0, "tp_getset", "0")
        g2 == Emit(g1, Item("after_init", "comment", cs[c].name, "", "", <<>>))
        g3 == IF cs[c].parent # 0
              THEN Emit(g2, Item("after_init", "tp_base", cs[c].pytypestruct,
                                 cs[cs[c].parent].pytypestruct, "", <<>>))
              ELSE g2
        g4 == Emit(g3, Item("after_init", "PyType_Ready", cs[c].pytypestruct,
                            "", "", <<>>))
        g5 == Emit(g4, Item("after_init", "PyModule_AddObject", cs[c].name,
                            cs[c].pytypestruct, "", <<>>))
        g6 == _generate_constructor(cs, c, g5)
        g7 == _generate_methods(cs, c, g6)
        g8 == _generate_destructor(cs, c, g7)
        g9 == _generate_type_structure(cs, c, g8)
    IN  IF cs[c].typeid_map # <<>>
        THEN _generate_typeid_map(cs, c, g9)
        ELSE g9

-----------------------------------------------------------------------------
(* The generator as a state machine *)

Created == 1..Len(classes)

\* The base classes of c, at any depth.
RECURSIVE Ancestors(_, _)
Ancestors(cs, c) ==
    IF cs[c].parent = 0 THEN {}
    ELSE {cs[c].parent} \cup Ancestors(cs, cs[c].parent)

NotGenerated == [done |-> FALSE, have_constructor |-> FALSE, out |-> <<>>]

Generated(c) == c \in 1..Len(classes) /\ gen[c].done

\* Registration is over once a class has been generated (all registration
\* completes before any generate).
Registering == \A c \in ClassIds : ~gen[c].done

UserSlots(cs) ==
    {c \in 1..Len(cs) : "tp_dealloc" \in DOMAIN cs[c].slots}

\* No constructor call is the last operation.
NoCall == [op |-> "none", incref_method |-> None, decref_method |-> None,
           raised |-> FALSE]

\* CppClass(name, parent, incref_method, decref_method,
\*          automatic_type_narrowing); a call that violates the hooks
\* assertion raises AssertionError and constructs nothing.
NewClass ==
    /\ Registering
    /\ Len(classes) < MaxClasses
    /\ \E parent \in 0..Len(classes),
          incref_method \in {None, "Ref"},
          decref_method \in {None, "Unref"},
          automatic_type_narrowing \in {None, "True", "False"},
          settings_atn \in BOOLEAN :
            IF HooksAssertion(incref_method, decref_method)
            THEN /\ classes' = CppClass__init__(classes,
                                   ClassName(Len(classes) + 1), parent,
                                   incref_method, decref_method,
                                   automatic_type_narrowing, settings_atn)
                 /\ call' = [op |-> "CppClass",
                             incref_method |-> incref_method,
                             decref_method |-> decref_method,
                             raised |-> FALSE]
            ELSE /\ classes' = classes
                 /\ call' = [op |-> "CppClass",
                             incref_method |-> incref_method,
                             decref_method |-> decref_method,
                             raised |-> TRUE]
    /\ UNCHANGED <<gen, runtime>>

AddConstructor ==
    /\ Registering
    /\ \E c \in 1..Len(classes), nparams \in 0..MaxParams :
            /\ Len(classes[c].constructors) < MaxCtors
            /\ classes' = add_constructor(classes, c, nparams)
    /\ call' = NoCall
    /\ UNCHANGED <<gen, runtime>>

\* The user overrides the deallocation hook: slots["tp_dealloc"] = ...
SetDeallocSlot ==
    /\ Registering
    /\ Cardinality(UserSlots(classes)) < MaxUserSlots
    /\ \E c \in 1..Len(classes) :
            /\ "tp_dealloc" \notin DOMAIN classes[c].slots
            /\ classes' = [classes EXCEPT
                             ![c].slots = @ @@ ("tp_dealloc" :> "user_dealloc")]
    /\ call' = NoCall
    /\ UNCHANGED <<gen, runtime>>

\* generate() of the next class in registration order: the module generates
\* its classes in the order they were registered, a parent before its
\* children.
Generate ==
    \E c \in 1..Len(classes) :
        /\ ~gen[c].done
        /\ \A b \in 1..(c - 1) : gen[b].done
        /\ LET g == generate(classes, c) IN
            /\ classes' = [classes EXCEPT ![c].slots = g.slots]
            /\ gen' = [gen EXCEPT ![c] = [done |-> TRUE,
                                          have_constructor |-> g.have_constructor,
                                          out |-> g.out]]
        /\ call' = NoCall
        /\ UNCHANGED runtime

\* A heap address: never handed out, holding an instance, or holding a
\* deleted one.  An adapter slot: the PyObject and its obj pointer (0 is NULL).
FreeObj == [st |-> "free", dyn |-> "", rc |-> 0]
Deleted == [st |-> "deleted", dyn |-> "", rc |-> 0]
NoAdapter == [live |-> FALSE, type |-> "", obj |-> 0]

NoLast == [op |-> "none", cls |-> 0, flag |-> FALSE, value |-> 0, py |-> 0,
           events |-> <<>>]


\* Nothing has run yet: an empty heap and no adapter.
InitRuntime ==
    /\ heap = [a \in 1..MaxObjs |-> FreeObj]
    /\ adapters = [x \in 1..MaxAdapters |-> NoAdapter]
    /\ last = NoLast
    /\ fault = FALSE

Init ==
    /\ classes = <<>>
    /\ call = NoCall
    /\ gen = [c \in ClassIds |-> NotGenerated]
    /\ InitRuntime

Next == NewClass \/ AddConstructor \/ SetDeallocSlot \/ Generate

Spec == Init /\ [][Next]_vars

-----------------------------------------------------------------------------
(* The value marshalers: the statements each handler writes into the       *)
(* before_call and after_call blocks of a wrapper.  In a statement, value  *)
(* is the native call's result, name the adapter passed as the parameter   *)
(* and py the adapter the wrapper creates.  The value transformation is    *)
(* the default one, which leaves the value as it is.                       *)

\* A variant that stores the returned value itself and copies nothing.
ReturnValue_NoCopy_Mutant(cs, c) ==
    [before_call |-> <<>>,
     after_call |->
        << Stmt("py = PyObject_New()", cs[c].pystruct, cs[c].pytypestruct),
           Stmt("py->obj = value", "", "") >>]

CppClassReturnValue_convert_c_to_python(cs, c) ==
    [before_call |-> <<>>,
     after_call |->
        << Stmt("py = PyObject_New()", cs[c].pystruct, cs[c].pytypestruct),
           Stmt("py->obj = new T(value)", cs[c].name, "") >>]

\* A variant that acts on the wrong side of the call: the pointer is cleared
\* before the call and the reference is taken after it.
PtrParameter_WrongSide_Mutant(cs, c, transfer_ownership) ==
    [before_call |->
        IF transfer_ownership /\ cs[c].incref_method = None
        THEN << Stmt("name->obj = NULL", "", "") >>
        ELSE <<>>,
     after_call |->
        IF transfer_ownership /\ cs[c].incref_method # None
        THEN << Stmt("name->obj->incref()", cs[c].incref_method, "") >>
        ELSE <<>>]

\* A variant that leaves the adapter's pointer in place after a transfer in
\* owned mode.
PtrParameter_KeepsPointer_Mutant(cs, c, transfer_ownership) ==
    [before_call |->
        IF transfer_ownership /\ cs[c].incref_method # None
        THEN << Stmt("name->obj->incref()", cs[c].incref_method, "") >>
        ELSE <<>>,
     after_call |-> <<>>]

CppClassPtrParameter_convert_python_to_c(cs, c, transfer_ownership) ==
    [before_call |->
        IF transfer_ownership /\ cs[c].incref_method # None
        THEN << Stmt("name->obj->incref()", cs[c].incref_method, "") >>
        ELSE <<>>,
     after_call |->
        IF transfer_ownership /\ cs[c].incref_method = None
        THEN << Stmt("name->obj = NULL", "", "") >>
        ELSE <<>>]

\* A variant that takes no reference on a borrowed shared-mode pointer.
PtrReturnValue_NoIncref_Mutant(cs, c, caller_owns_return) ==
    LET narrowing ==
            /\ cs[c].automatic_type_narrowing
            /\ (caller_owns_return \/ cs[c].incref_method # None)
        lookup ==
            IF narrowing
            THEN << Stmt("wrapper_type = map[typeid(*value).name()]",
                         cs[get_type_narrowing_root(cs, c)].typeid_map_name,
                         ""),
                    Stmt("if (!wrapper_type) wrapper_type = &",
                         cs[c].pytypestruct, "") >>
            ELSE <<>>
        wrapper_type ==
            IF narrowing THEN "wrapper_type" ELSE cs[c].pytypestruct
        create ==
            << Stmt("py = PyObject_New()", cs[c].pystruct, wrapper_type) >>
        assign ==
            IF caller_owns_return
            THEN << Stmt("py->obj = value", "", "") >>
            ELSE IF cs[c].incref_method = None
            THEN << Stmt("py->obj = new T(*value)", cs[c].name, "") >>
            ELSE << Stmt("py->obj = value", "", "") >>
    IN  [before_call |-> <<>>, after_call |-> lookup \o create \o assign]

\* A variant that stores a borrowed owned-mode pointer instead of a copy.
PtrReturnValue_NoCopy_Mutant(cs, c, caller_owns_return) ==
    LET narrowing ==
            /\ cs[c].automatic_type_narrowing
            /\ (caller_owns_return \/ cs[c].incref_method # None)
        lookup ==
            IF narrowing
            THEN << Stmt("wrapper_type = map[typeid(*value).name()]",
                         cs[get_type_narrowing_root(cs, c)].typeid_map_name,
                         ""),
                    Stmt("if (!wrapper_type) wrapper_type = &",
                         cs[c].pytypestruct, "") >>
            ELSE <<>>
        wrapper_type ==
            IF narrowing THEN "wrapper_type" ELSE cs[c].pytypestruct
        create ==
            << Stmt("py = PyObject_New()", cs[c].pystruct, wrapper_type) >>
        assign ==
            IF caller_owns_return
            THEN << Stmt("py->obj = value", "", "") >>
            ELSE IF cs[c].incref_method = None
            THEN << Stmt("py->obj = value", "", "") >>
            ELSE << Stmt("value->incref()", cs[c].incref_method, ""),
                    Stmt("py->obj = value", "", "") >>
    IN  [before_call |-> <<>>, after_call |-> lookup \o create \o assign]

\* A variant that narrows whatever the ownership of the returned pointer.
PtrReturnValue_AlwaysNarrow_Mutant(cs, c, caller_owns_return) ==
    LET narrowing ==
            /\ cs[c].automatic_type_narrowing
        lookup ==
            IF narrowing
            THEN << Stmt("wrapper_type = map[typeid(*value).name()]",
                         cs[get_type_narrowing_root(cs, c)].typeid_map_name,
                         ""),
                    Stmt("if (!wrapper_type) wrapper_type = &",
                         cs[c].pytypestruct, "") >>
            ELSE <<>>
        wrapper_type ==
            IF narrowing THEN "wrapper_type" ELSE cs[c].pytypestruct
        create ==
            << Stmt("py = PyObject_New()", cs[c].pystruct, wrapper_type) >>
        assign ==
            IF caller_owns_return
            THEN << Stmt("py->obj = value", "", "") >>
            ELSE IF cs[c].incref_method = None
            THEN << Stmt("py->obj = new T(*value)", cs[c].name, "") >>
            ELSE << Stmt("value->incref()", cs[c].incref_method, ""),
                    Stmt("py->obj = value", "", "") >>
    IN  [before_call |-> <<>>, after_call |-> lookup \o create \o assign]

\* A variant that takes a reference also on a pointer whose reference the
\* caller already owns.
PtrReturnValue_IncrefOwned_Mutant(cs, c, caller_owns_return) ==
    LET narrowing ==
            /\ cs[c].automatic_type_narrowing
            /\ (caller_owns_return \/ cs[c].incref_method # None)
        lookup ==
            IF narrowing
            THEN << Stmt("wrapper_type = map[typeid(*value).name()]",
                         cs[get_type_narrowing_root(cs, c)].typeid_map_name,
                         ""),
                    Stmt("if (!wrapper_type) wrapper_type = &",
                         cs[c].pytypestruct, "") >>
            ELSE <<>>
        wrapper_type ==
            IF narrowing THEN "wrapper_type" ELSE cs[c].pytypestruct
        create ==
            << Stmt("py = PyObject_New()", cs[c].pystruct, wrapper_type) >>
        assign ==
            IF caller_owns_return /\ cs[c].incref_method = None
            THEN << Stmt("py->obj = value", "", "") >>
            ELSE IF caller_owns_return
            THEN << Stmt("value->incref()", cs[c].incref_method, ""),
                    Stmt("py->obj = value", "", "") >>
            ELSE IF cs[c].incref_method = None
            THEN << Stmt("py->obj = new T(*value)", cs[c].name, "") >>
            ELSE << Stmt("value->incref()", cs[c].incref_method, ""),
                    Stmt("py->obj = value", "", "") >>
    IN  [before_call |-> <<>>, after_call |-> lookup \o create \o assign]

CppClassPtrReturnValue_convert_c_to_python(cs, c, caller_owns_return) ==
    LET narrowing ==
            /\ cs[c].automatic_type_narrowing
            /\ (caller_owns_return \/ cs[c].incref_method # None)
        lookup ==
            IF narrowing
            THEN << Stmt("wrapper_type = map[typeid(*value).name()]",
                         cs[get_type_narrowing_root(cs, c)].typeid_map_name,
                         ""),
                    Stmt("if (!wrapper_type) wrapper_type = &",
                         cs[c].pytypestruct, "") >>
            ELSE <<>>
        wrapper_type ==
            IF narrowing THEN "wrapper_type" ELSE cs[c].pytypestruct
        create ==
            << Stmt("py = PyObject_New()", cs[c].pystruct, wrapper_type) >>
        assign ==
            IF caller_owns_return
            THEN << Stmt("py->obj = value", "", "") >>
            ELSE IF cs[c].incref_method = None
            THEN << Stmt("py->obj = new T(*value)", cs[c].name, "") >>
            ELSE << Stmt("value->incref()", cs[c].incref_method, ""),
                    Stmt("py->obj = value", "", "") >>
    IN  [before_call |-> <<>>, after_call |-> lookup \o create \o assign]

-----------------------------------------------------------------------------
(* The generated code at run time *)

MinOf(S) == CHOOSE x \in S : \A y \in S : x <= y

FreeAddrs(h) == {a \in DOMAIN h : h[a].st = "free"}
DeadAdapters(ad) == {x \in DOMAIN ad : ~ad[x].live}

\* The entries the module's after_init block assigns to the map of this
\* name, in the order of the classes' generation.
RECURSIVE TypeidEntries(_, _, _)
TypeidEntries(g, map, c) ==
    IF c > Len(g) THEN <<>>
    ELSE SelectSeq(g[c].out, LAMBDA it : it.kind = "typeid_map_entry"
                                          /\ it.a = map)
            \o TypeidEntries(g, map, c + 1)

\* map[typeid(...).name()] for a dynamic type: the value last assigned to
\* the key, or NULL (which operator[] inserts) when there is none.  The key
\* of the std::map is the address of the type's name string; the C++ ABI
\* gives each type one name string, so the address stands for the type and
\* is written here as the type's name.
LookupTypeid(g, map, dyn) ==
    LET entries == TypeidEntries(g, map, 1)
        hits == {i \in 1..Len(entries) : entries[i].b = dyn}
    IN  IF hits = {} THEN "NULL"
        ELSE entries[CHOOSE i \in hits : \A j \in hits : j <= i].c

\* An event of the execution: what was done, and to which address (0 when
\* the event has none).
Event(e, ev, p) == [e EXCEPT !.events = Append(@, [ev |-> ev, p |-> p])]
Undefined(e) == [e EXCEPT !.fault = TRUE]
IsLive(e, p) == p # 0 /\ e.heap[p].st = "live"

\* operator new: an address never handed out before (the address of a
\* deleted instance is not reused, so a dangling pointer never equals a
\* pointer to a later instance).
NewAddr(h) == MinOf(FreeAddrs(h))

\* One statement of generated code, executed in environment e: the heap and
\* the adapters, the wrapper's local variables, and the events so far.
\* Dereferencing a null or dangling pointer is undefined behaviour.
Exec(g, e, s) ==
    CASE s.op = "py = PyObject_New()" ->
            LET x == MinOf(DeadAdapters(e.adapters)) IN
            Event([e EXCEPT !.adapters[x] =
                               [live |-> TRUE,
                                type |-> IF s.b = "wrapper_type"
                                         THEN e.wrapper_type ELSE s.b,
                                obj |-> 0],
                            !.py = x],
                  "PyObject_New", 0)
      [] s.op = "py->obj = new T(value)" ->
            LET p == NewAddr(e.heap) IN
            Event([e EXCEPT !.heap[p] = [st |-> "live", dyn |-> s.a, rc |-> 1],
                            !.adapters[e.py].obj = p],
                  "new", p)
      [] s.op = "py->obj = new T(*value)" ->
            IF ~IsLive(e, e.value) THEN Undefined(e)
            ELSE LET p == NewAddr(e.heap) IN
                 Event([e EXCEPT !.heap[p] =
                                    [st |-> "live", dyn |-> s.a, rc |-> 1],
                                 !.adapters[e.py].obj = p],
                       "new", p)
      [] s.op = "py->obj = value" ->
            Event([e EXCEPT !.adapters[e.py].obj = e.value], "store", e.value)
      [] s.op = "value->incref()" ->
            IF ~IsLive(e, e.value) THEN Undefined(e)
            ELSE Event([e EXCEPT !.heap[e.value].rc = @ + 1],
                       "incref", e.value)
      [] s.op = "wrapper_type = map[typeid(*value).name()]" ->
            IF ~IsLive(e, e.value) THEN Undefined(e)
            ELSE Event([e EXCEPT !.wrapper_type =
                          LookupTypeid(g, s.a, e.heap[e.value].dyn)],
                       "lookup", e.value)
      [] s.op = "if (!wrapper_type) wrapper_type = &" ->
            IF e.wrapper_type = "NULL"
            THEN Event([e EXCEPT !.wrapper_type = s.a], "fallback", 0)
            ELSE e
      [] s.op = "name->obj->incref()" ->
            IF ~IsLive(e, e.adapters[e.name].obj) THEN Undefined(e)
            ELSE Event([e EXCEPT !.heap[e.adapters[e.name].obj].rc = @ + 1],
                       "incref", e.adapters[e.name].obj)
      [] s.op = "name->obj = NULL" ->
            Event([e EXCEPT !.adapters[e.name].obj = 0], "null", 0)
      [] s.op = "tmp = self->obj" ->
            [e EXCEPT !.tmp = e.adapters[e.self].obj]
      [] s.op = "self->obj = NULL" ->
            Event([e EXCEPT !.adapters[e.self].obj = 0], "null", 0)
      [] s.op = "delete tmp" ->
            IF e.tmp = 0 THEN e
            ELSE IF ~IsLive(e, e.tmp) THEN Undefined(e)
            ELSE Event([e EXCEPT !.heap[e.tmp] = Deleted], "delete", e.tmp)
      [] s.op = "if (tmp) tmp->decref()" ->
            IF e.tmp = 0 THEN e
            ELSE IF ~IsLive(e, e.tmp) THEN Undefined(e)
            ELSE Event([e EXCEPT !.heap[e.tmp] =
                                    IF @.rc <= 1 THEN Deleted
                                    ELSE [@ EXCEPT !.rc = @ - 1]],
                       "decref", e.tmp)
      [] s.op = "PyObject_DEL(self)" ->
            Event([e EXCEPT !.adapters[e.self] = NoAdapter],
                  "PyObject_DEL", 0)
      [] OTHER -> e

\* A block of statements, in order; execution stops at undefined behaviour.
RECURSIVE Run(_, _, _, _)
Run(g, e, stmts, i) ==
    IF i > Len(stmts) \/ e.fault THEN e
    ELSE Run(g, Exec(g, e, stmts[i]), stmts, i + 1)

\* The native call itself, between before_call and after_call.
Call(e) == IF e.fault THEN e ELSE Event(e, "call", 0)

Env(h, ad, value, name, self) ==
    [heap |-> h, adapters |-> ad, value |-> value, name |-> name,
     self |-> self, py |-> 0, tmp |-> 0, wrapper_type |-> "NULL",
     events |-> <<>>, fault |-> FALSE]

\* A wrapper: before_call, the native call, after_call.
RunWrapper(g, code, e) ==
    Run(g, Call(Run(g, e, code.before_call, 1)), code.after_call, 1)

\* A C++ subclass of class d that is not registered with the generator.
NativeSub(d) == classes[d].name \o "_sub"

DynTypes == {classes[d].name : d \in Created} \cup {NativeSub(d) : d \in Created}

\* The C++ typing of a pointer: an instance of dynamic type dyn may be
\* pointed to by a c*.
IsA(dyn, c) ==
    \E d \in Created :
        /\ dyn = classes[d].name \/ dyn = NativeSub(d)
        /\ d = c \/ c \in Ancestors(classes, d)

\* The tp_base link the module's after_init block set for a type, if any.
TpBaseOf(g, type) ==
    {it.b : it \in UNION {{g[c].out[i] : i \in 1..Len(g[c].out)} : c \in DOMAIN g}
              \cap {it \in UNION {{g[c].out[i] : i \in 1..Len(g[c].out)} : c \in DOMAIN g} :
                        it.kind = "tp_base" /\ it.a = type}}

\* PyType_IsSubtype, as the "O!" argument check applies it.
RECURSIVE IsSubtype(_, _, _, _)
IsSubtype(g, type, target, fuel) ==
    \/ type = target
    \/ /\ fuel > 0
       /\ \E b \in TpBaseOf(g, type) : IsSubtype(g, b, target, fuel - 1)

ClassOfType(type) == CHOOSE c \in Created : classes[c].pytypestruct = type

\* The generated function in the tp_dealloc slot of a class.
DeallocFunction(c) ==
    LET fs == SelectSeq(gen[c].out,
                 LAMBDA it : /\ it.dest = "code_sink"
                             /\ it.kind = "tp_dealloc"
                             /\ it.a = classes[c].slots["tp_dealloc"])
    IN  fs[1].body

Commit(e, op, c, flag, value) ==
    /\ heap' = e.heap
    /\ adapters' = e.adapters
    /\ fault' = e.fault
    /\ last' = [op |-> op, cls |-> c, flag |-> flag, value |-> value,
                py |-> e.py, events |-> e.events]
    /\ UNCHANGED <<classes, call, gen>>

\* A wrapped function returns an instance of class c by value.
ValueReturn ==
    /\ ~fault
    /\ \E c \in Created :
        /\ DeadAdapters(adapters) # {}
        /\ FreeAddrs(heap) # {}
        /\ Commit(RunWrapper(gen,
                      CppClassReturnValue_convert_c_to_python(classes, c),
                      Env(heap, adapters, 0, 0, 0)),
                  "ValueReturn", c, FALSE, 0)

\* The heap after the native function allocated the instance it returns.
NativeNew(h, p, dyn) == [h EXCEPT ![p] = [st |-> "live", dyn |-> dyn, rc |-> 1]]

\* A wrapped function returns a c*: NULL, a live instance whose dynamic
\* type is c or derives from it, or an instance it has just allocated.
PtrReturnAt(c, caller_owns_return, p, dyn) ==
        LET fresh == p # 0 /\ heap[p].st = "free"
            h == IF fresh THEN NativeNew(heap, p, dyn) ELSE heap
            code == CppClassPtrReturnValue_convert_c_to_python(
                        classes, c, caller_owns_return)
        IN  /\ DeadAdapters(adapters) # {}
            /\ p = 0 => dyn = classes[c].name
            /\ fresh => p = NewAddr(heap) /\ IsA(dyn, c)
            /\ (p # 0 /\ ~fresh) =>
                  heap[p].st = "live" /\ dyn = heap[p].dyn /\ IsA(dyn, c)
            /\ (~caller_owns_return /\ classes[c].incref_method = None)
                  => FreeAddrs(h) # {}
            /\ (p # 0 /\ ~caller_owns_return
                      /\ classes[c].incref_method # None) => h[p].rc < MaxRc
            /\ Commit(RunWrapper(gen, code, Env(h, adapters, p, 0, 0)),
                      "PtrReturn", c, caller_owns_return, p)

PtrReturnOf(caller_owns_return) ==
    /\ ~fault
    /\ \E c \in Created, p \in 0..MaxObjs, dyn \in DynTypes :
          PtrReturnAt(c, caller_owns_return, p, dyn)

PtrReturn == \E caller_owns_return \in BOOLEAN : PtrReturnOf(caller_owns_return)

\* A wrapped function takes a c* parameter and is called with adapter x.
PtrParamOf(transfer_ownership) ==
    /\ ~fault
    /\ \E c \in Created, x \in 1..MaxAdapters :
        /\ adapters[x].live
        /\ IsSubtype(gen, adapters[x].type, classes[c].pytypestruct,
                     MaxClasses)
        /\ (adapters[x].obj # 0 /\ transfer_ownership
                /\ classes[c].incref_method # None)
              => heap[adapters[x].obj].rc < MaxRc
        /\ LET e == RunWrapper(gen,
                        CppClassPtrParameter_convert_python_to_c(
                            classes, c, transfer_ownership),
                        Env(heap, adapters, 0, x, 0))
           IN  Commit([e EXCEPT !.py = x], "PtrParam", c, transfer_ownership,
                      adapters[x].obj)

PtrParam == \E transfer_ownership \in BOOLEAN : PtrParamOf(transfer_ownership)

\* The host releases adapter x: the tp_dealloc function of its type runs.
Dealloc ==
    /\ ~fault
    /\ \E x \in 1..MaxAdapters :
        /\ adapters[x].live
        /\ LET c == ClassOfType(adapters[x].type)
               e == Run(gen, Env(heap, adapters, 0, 0, x),
                        DeallocFunction(c), 1)
           IN  Commit([e EXCEPT !.py = x], "Dealloc", c, FALSE,
                      adapters[x].obj)

\* The registrations of a hierarchy of n classes under one base class, each
\* class with a zero-argument constructor.
RECURSIVE Registrations(_)
Registrations(n) ==
    IF n = 0 THEN {<<>>}
    ELSE UNION {
           { add_constructor(
                 CppClass__init__(cs, ClassName(n), parent, h[1], h[2],
                                  atn, FALSE), n, 0) :
               parent \in (IF n = 1 THEN {0} ELSE 1..(n - 1)),
               h \in {<<None, None>>, <<"Ref", "Unref">>},
               atn \in {"True", "False"} } :
           cs \in Registrations(n - 1) }

RECURSIVE GenerateAll(_, _, _)
GenerateAll(cs, gn, c) ==
    IF c > Len(cs) THEN [classes |-> cs, gen |-> gn]
    ELSE LET g == generate(cs, c) IN
         GenerateAll([cs EXCEPT ![c].slots = g.slots],
                     [gn EXCEPT ![c] = [done |-> TRUE,
                                        have_constructor |-> g.have_constructor,
                                        out |-> g.out]],
                     c + 1)

\* The generated module is loaded: every class of some registration has
\* been generated.
InitRun ==
    /\ \E cs \in Registrations(RunClasses) :
          LET r == GenerateAll(cs, [c \in ClassIds |-> NotGenerated], 1) IN
          classes = r.classes /\ gen = r.gen
    /\ call = NoCall
    /\ InitRuntime

NextRun == ValueReturn \/ PtrReturn \/ PtrParam \/ Dealloc

SpecRun == InitRun /\ [][NextRun]_vars

-----------------------------------------------------------------------------
(* Properties of the generator *)

\* A registered constructor that takes no argument.
HasZeroArgConstructor(c) ==
    \E i \in 1..Len(classes[c].constructors) : classes[c].constructors[i] = 0

\* The items of one kind that generate() of class c wrote to the code sink,
\* in order.
ItemsOf(c, kind) ==
    SelectSeq(gen[c].out, LAMBDA it : it.dest = "code_sink" /\ it.kind = kind)

OnlyReleasesHost(body) ==
    \A i \in 1..Len(body) : body[i].op = "PyObject_DEL(self)"

\* C1: a class with no registered constructor and no ancestor, at any depth,
\* that has a zero-argument constructor gets a destructor that only releases
\* the host-side allocation (no read, delete or decrement through obj).
C1_NoConstructorDestructorHostOnly ==
    \A c \in Created :
        ( /\ gen[c].done
          /\ classes[c].constructors = <<>>
          /\ \A a \in Ancestors(classes, c) : ~HasZeroArgConstructor(a) )
        => \A i \in 1..Len(ItemsOf(c, "tp_dealloc")) :
               OnlyReleasesHost(ItemsOf(c, "tp_dealloc")[i].body)

\* C6: a class with no registered constructor whose parent has a
\* zero-argument constructor gets exactly one synthesized zero-argument
\* constructor, bound to this class, whose symbol is in its tp_init slot
\* and differs from the symbol in the parent's tp_init slot.
C6_SynthesizedConstructorOwnSymbol ==
    \A c \in Created :
        ( /\ gen[c].done
          /\ classes[c].constructors = <<>>
          /\ classes[c].parent # 0
          /\ HasZeroArgConstructor(classes[c].parent) )
        => LET cons == ItemsOf(c, "constructor") IN
           /\ Len(cons) = 1
           /\ cons[1].c = "default"
           /\ cons[1].b = classes[c].name
           /\ classes[c].slots["tp_init"] = cons[1].a
           /\ gen[classes[c].parent].done
           /\ classes[c].slots["tp_init"]
                  # classes[classes[c].parent].slots["tp_init"]

C6_Witness ==
    \E c \in Created :
        /\ gen[c].done
        /\ classes[c].constructors = <<>>
        /\ classes[c].parent # 0
        /\ HasZeroArgConstructor(classes[c].parent)
        /\ classes[c].slots["tp_init"] = "_wrap_PyC2__tp_init"
        /\ classes[classes[c].parent].slots["tp_init"] = "_wrap_PyC1__tp_init"

\* A usable constructor: one registered, or a zero-argument constructor of
\* an ancestor to synthesize one from.
HasUsableConstructor(c) ==
    \/ classes[c].constructors # <<>>
    \/ \E a \in Ancestors(classes, c) : HasZeroArgConstructor(a)

\* C8: the generated destructor of a class with a usable constructor saves
\* obj, then sets the stored pointer to NULL, and only then releases: owned
\* mode deletes the saved pointer; shared mode calls the decrement hook
\* under a non-null test and has no delete.
C8_DestructorClearsThenReleases ==
    \A c \in Created :
        gen[c].done =>
          /\ HasUsableConstructor(c) => gen[c].have_constructor
          /\ \A i \in 1..Len(ItemsOf(c, "tp_dealloc")) :
                gen[c].have_constructor =>
                  LET body == ItemsOf(c, "tp_dealloc")[i].body IN
                  /\ Len(body) = 4
                  /\ body[1].op = "tmp = self->obj"
                  /\ body[2].op = "self->obj = NULL"
                  /\ body[4].op = "PyObject_DEL(self)"
                  /\ classes[c].decref_method = None
                        => body[3].op = "delete tmp"
                  /\ classes[c].decref_method # None
                        => /\ body[3].op = "if (tmp) tmp->decref()"
                           /\ body[3].a = classes[c].decref_method
                           /\ \A j \in 1..4 : body[j].op # "delete tmp"

C8_Witness ==
    \E c, d \in Created :
        /\ gen[c].done /\ gen[d].done
        /\ HasUsableConstructor(c) /\ HasUsableConstructor(d)
        /\ classes[c].decref_method = None
        /\ classes[d].decref_method = "Unref"
        /\ Len(ItemsOf(c, "tp_dealloc")) = 1
        /\ Len(ItemsOf(d, "tp_dealloc")) = 1
        /\ ItemsOf(c, "tp_dealloc")[1].body[3].op = "delete tmp"
        /\ ItemsOf(d, "tp_dealloc")[1].body[3].op = "if (tmp) tmp->decref()"

\* The number of times class c occurs in a registry sequence.
Occurrences(seq, c) == Cardinality({i \in 1..Len(seq) : seq[i] = c})

RegistryInvariant ==
    \A c \in Created :
        LET root == get_type_narrowing_root(classes, c) IN
        /\ classes[c].automatic_type_narrowing =>
              /\ Occurrences(classes[root].typeid_map, c) = 1
              /\ \A r \in Created \ {root} :
                     Occurrences(classes[r].typeid_map, c) = 0
              /\ Occurrences(classes[root].typeid_map, root) = 1
              /\ classes[root].automatic_type_narrowing
        /\ ~classes[c].automatic_type_narrowing =>
              \A r \in Created : Occurrences(classes[r].typeid_map, c) = 0

IsPrefix(s, t) == Len(s) <= Len(t) /\ \A i \in 1..Len(s) : s[i] = t[i]

RegistryAppendOnly ==
    \A c \in Created : IsPrefix(classes[c].typeid_map, classes'[c].typeid_map)

\* C10: every narrowing-enabled class is exactly once in exactly one
\* registry, that of its narrowing root, which holds the root itself; a
\* class that is not narrowing-enabled is in none; a registry only grows
\* by appends.
C10_OneRegistryAppendOnly ==
    []RegistryInvariant /\ [][RegistryAppendOnly]_vars

C10_Witness ==
    /\ Len(classes) = 3
    /\ classes[1].typeid_map = <<1, 2, 3>>
    /\ classes[2].parent = 1 /\ classes[3].parent = 2

-----------------------------------------------------------------------------
(* Properties of the generated code at run time.  last describes the       *)
(* wrapper that ran last: the handler's class, its ownership flag, the     *)
(* pointer it was given, the adapter it created or was called with, and    *)
(* the events of its execution.                                            *)

SharedMode(c) == classes[c].incref_method # None

\* The addresses of the events of one kind, in order.
EventsOn(events, ev) ==
    LET sel == SelectSeq(events, LAMBDA x : x.ev = ev)
    IN  [i \in 1..Len(sel) |-> sel[i].p]

StatementsOf(code, op) == SelectSeq(code, LAMBDA st : st.op = op)

OtherHolders(x, p) ==
    {y \in DOMAIN adapters \ {x} : adapters[y].live /\ adapters[y].obj = p}

\* C2: for a shared-mode class, the code of a by-pointer return with
\* caller-owns unset calls the class's increment hook on the returned
\* pointer exactly once, stores that same pointer in the new adapter and
\* constructs no native instance.
C2_SharedBorrowedReturnIncrefsOnce ==
    /\ \A c \in Created :
          SharedMode(c) =>
            LET code == CppClassPtrReturnValue_convert_c_to_python(
                            classes, c, FALSE).after_call
                incs == StatementsOf(code, "value->incref()")
            IN  /\ Len(incs) = 1
                /\ incs[1].a = classes[c].incref_method
                /\ Len(StatementsOf(code, "py->obj = value")) = 1
                /\ StatementsOf(code, "py->obj = new T(*value)") = <<>>
                /\ StatementsOf(code, "py->obj = new T(value)") = <<>>
    /\ (last.op = "PtrReturn" /\ ~last.flag /\ SharedMode(last.cls) /\ ~fault)
          => /\ EventsOn(last.events, "incref") = <<last.value>>
             /\ EventsOn(last.events, "new") = <<>>
             /\ EventsOn(last.events, "store") = <<last.value>>
             /\ adapters[last.py].live
             /\ adapters[last.py].obj = last.value
             /\ heap[last.value].st = "live"
             /\ heap[last.value].rc >= 2

C2_Witness ==
    /\ last.op = "PtrReturn" /\ ~last.flag /\ SharedMode(last.cls) /\ ~fault
    /\ last.value # 0
    /\ adapters[last.py].obj = last.value
    /\ heap[last.value].rc = 2
    /\ OtherHolders(last.py, last.value) = {}

\* C3: for an owned-mode class, the code of a by-pointer return with
\* caller-owns unset calls no increment hook and makes exactly one heap
\* copy of the pointee, of the class's own type, which the new adapter
\* alone holds; the adapter never stores the returned pointer itself, and
\* the instance behind the returned pointer stays as it was.
C3_OwnedBorrowedReturnCopies ==
    /\ \A c \in Created :
          ~SharedMode(c) =>
            LET code == CppClassPtrReturnValue_convert_c_to_python(
                            classes, c, FALSE).after_call
                copies == StatementsOf(code, "py->obj = new T(*value)")
            IN  /\ Len(copies) = 1
                /\ copies[1].a = classes[c].name
                /\ StatementsOf(code, "value->incref()") = <<>>
                /\ StatementsOf(code, "py->obj = value") = <<>>
    /\ (last.op = "PtrReturn" /\ ~last.flag /\ ~SharedMode(last.cls) /\ ~fault)
          => LET p == adapters[last.py].obj IN
             /\ EventsOn(last.events, "incref") = <<>>
             /\ EventsOn(last.events, "store") = <<>>
             /\ EventsOn(last.events, "new") = <<p>>
             /\ adapters[last.py].live
             /\ p # 0 /\ p # last.value
             /\ heap[p].st = "live"
             /\ heap[p].dyn = classes[last.cls].name
             /\ OtherHolders(last.py, p) = {}
             /\ heap[last.value].st = "live"

C3_Witness ==
    /\ last.op = "PtrReturn" /\ ~last.flag /\ ~SharedMode(last.cls) /\ ~fault
    /\ last.value # 0
    /\ OtherHolders(last.py, last.value) # {}
    /\ adapters[last.py].obj # 0
    /\ adapters[last.py].obj # last.value

\* The registry a by-pointer return of class c looks its descriptor up in,
\* and the descriptor a dynamic type should get from it: the type's own if
\* the type is registered there, the static type's otherwise.
RegistryOf(c) == classes[get_type_narrowing_root(classes, c)].typeid_map

ExpectedDescriptor(c, dyn) ==
    LET reg == RegistryOf(c)
        own == {reg[i] : i \in 1..Len(reg)} \cap
                  {k \in Created : classes[k].name = dyn}
    IN  IF own = {} THEN classes[c].pytypestruct
        ELSE classes[CHOOSE k \in own : TRUE].pytypestruct

\* The by-pointer return of class c, caller-owns set, run on a pointer to
\* an instance of dynamic type dyn.
NarrowedReturn(c, dyn) ==
    RunWrapper(gen,
        CppClassPtrReturnValue_convert_c_to_python(classes, c, TRUE),
        Env(NativeNew([a \in 1..MaxObjs |-> FreeObj], 1, dyn),
            [x \in 1..MaxAdapters |-> NoAdapter], 1, 0, 0))

AllGenerated == Created # {} /\ \A c \in Created : gen[c].done

\* C4: once the module is generated, the table emitted for a narrowing
\* root maps the type identity of every class of its registry to that
\* class's own descriptor; the lookup of a narrowing return never fails:
\* a registered dynamic type gets its own descriptor, and one that was
\* never registered gets the statically declared type's.
C4_TypeidMapResolvesEachDescendant ==
    AllGenerated =>
      \A c \in Created :
        classes[c].automatic_type_narrowing =>
          LET root == get_type_narrowing_root(classes, c)
              reg == classes[root].typeid_map
          IN  /\ \A i \in 1..Len(reg) :
                    LookupTypeid(gen, classes[root].typeid_map_name,
                                 classes[reg[i]].name)
                      = classes[reg[i]].pytypestruct
              /\ \A dyn \in DynTypes :
                    IsA(dyn, c) =>
                      LET e == NarrowedReturn(c, dyn) IN
                      /\ ~e.fault
                      /\ e.adapters[e.py].obj = 1
                      /\ e.adapters[e.py].type = ExpectedDescriptor(c, dyn)

C4_Witness ==
    /\ AllGenerated
    /\ Len(classes) = 3
    /\ classes[1].typeid_map = <<1, 2, 3>>
    /\ classes[2].parent = 1 /\ classes[3].parent = 1
    /\ NarrowedReturn(1, "C3").adapters[1].type = "PyC3_Type"
    /\ NarrowedReturn(1, "C2").adapters[1].type = "PyC2_Type"
    /\ NarrowedReturn(1, "C2_sub").adapters[1].type = "PyC1_Type"

\* C5: on a by-pointer return of a narrowing-enabled class, the adapter's
\* descriptor comes from the narrowing lookup exactly when caller-owns is
\* set or the class is in shared mode, and is then the one registered for
\* the pointee's dynamic type; an adapter that receives a defensive copy
\* (caller-owns unset, owned mode) has the statically declared type's
\* descriptor.
C5_NarrowingIffOwnershipOrShared ==
    (last.op = "PtrReturn" /\ ~fault) =>
      LET c == last.cls
          looked == EventsOn(last.events, "lookup") # <<>>
      IN  /\ classes[c].automatic_type_narrowing =>
                /\ looked <=> (last.flag \/ SharedMode(c))
                /\ looked =>
                     /\ EventsOn(last.events, "lookup") = <<last.value>>
                     /\ adapters[last.py].obj = last.value
                     /\ adapters[last.py].type =
                          ExpectedDescriptor(c, heap[last.value].dyn)
          /\ (~last.flag /\ ~SharedMode(c)) =>
                /\ ~looked
                /\ adapters[last.py].obj # last.value
                /\ adapters[last.py].type = classes[c].pytypestruct

C5_Witness ==
    /\ last.op = "PtrReturn" /\ ~fault
    /\ last.cls = 1 /\ last.flag /\ ~SharedMode(1)
    /\ classes[1].automatic_type_narrowing
    /\ classes[1].typeid_map = <<1, 2>>
    /\ heap[last.value].dyn = "C2"
    /\ adapters[last.py].type = "PyC2_Type"
    /\ \E x \in DOMAIN adapters \ {last.py} :
          /\ adapters[x].live
          /\ adapters[x].type = "PyC1_Type"
          /\ adapters[x].obj \notin {0, last.value}
          /\ heap[adapters[x].obj].dyn = "C1"

\* C7: a by-value return gives the new adapter a pointer to a freshly
\* allocated heap copy of the class's type; no other adapter holds that
\* pointer, so two by-value returns yield adapters with distinct pointers.
C7_ValueReturnFreshCopy ==
    (last.op = "ValueReturn" /\ ~fault) =>
      LET p == adapters[last.py].obj IN
      /\ EventsOn(last.events, "new") = <<p>>
      /\ EventsOn(last.events, "store") = <<>>
      /\ adapters[last.py].live
      /\ adapters[last.py].type = classes[last.cls].pytypestruct
      /\ p # 0
      /\ heap[p].st = "live"
      /\ heap[p].dyn = classes[last.cls].name
      /\ OtherHolders(last.py, p) = {}

C7_Witness ==
    /\ last.op = "ValueReturn" /\ ~fault
    /\ \A x \in DOMAIN adapters :
          /\ adapters[x].live
          /\ adapters[x].obj # 0
          /\ adapters[x].type = classes[last.cls].pytypestruct
    /\ adapters[1].obj # adapters[2].obj

\* C9: a pointer parameter with transfer set on an owned-mode class runs
\* the call and then clears the passed adapter's pointer; with transfer
\* set on a shared-mode class it calls the increment hook on the adapter's
\* pointer before the call and leaves the pointer in place; with transfer
\* unset it does nothing about ownership.
C9_PtrParamTransfer ==
    (last.op = "PtrParam" /\ ~fault) =>
      LET names == [i \in 1..Len(last.events) |-> last.events[i].ev]
          x == last.py
      IN  /\ adapters[x].live
          /\ (last.flag /\ ~SharedMode(last.cls)) =>
                /\ names = <<"call", "null">>
                /\ adapters[x].obj = 0
          /\ (last.flag /\ SharedMode(last.cls)) =>
                /\ names = <<"incref", "call">>
                /\ last.events[1].p = last.value
                /\ adapters[x].obj = last.value
                /\ last.value # 0
          /\ ~last.flag =>
                /\ names = <<"call">>
                /\ adapters[x].obj = last.value

C9_Witness ==
    /\ last.op = "PtrParam" /\ ~fault /\ last.flag
    /\ ~SharedMode(last.cls)
    /\ last.value # 0
    /\ adapters[last.py].live
    /\ adapters[last.py].obj = 0
    /\ heap[last.value].st = "live"

-----------------------------------------------------------------------------
(* Properties of construction and of generate()'s output *)

BothOrNeither(c) ==
    (classes[c].incref_method = None) <=> (classes[c].decref_method = None)

ExactlyOneHook(incref_method, decref_method) ==
    (incref_method = None) # (decref_method = None)

HooksInvariant ==
    /\ \A c \in Created : BothOrNeither(c)
    /\ call.op = "CppClass" =>
          (call.raised <=> ExactlyOneHook(call.incref_method,
                                          call.decref_method))

RejectedConstructsNothing == call'.raised => classes' = classes

\* C11: a constructor call with exactly one of the two hooks raises and
\* constructs nothing; a call with both or neither is accepted; every
\* descriptor constructed, also one that inherits its hooks from its
\* parent, has both hooks or neither.
C11_HooksBothOrNeither ==
    []HooksInvariant /\ [][RejectedConstructsNothing]_vars

C11_Witness ==
    /\ call.op = "CppClass" /\ call.raised
    /\ call.incref_method = None /\ call.decref_method = "Unref"
    /\ Len(classes) = 2
    /\ classes[1].incref_method = "Ref" /\ classes[1].decref_method = "Unref"
    /\ classes[2].parent = 1
    /\ classes[2].incref_method = "Ref" /\ classes[2].decref_method = "Unref"

\* The type structure generate() of class c wrote: the slot values the
\* template was filled from.
TypeStructures(c) ==
    SelectSeq(gen[c].out, LAMBDA it : it.kind = "type_structure")

\* This step is the generate() call of class c.
GenerateStep(c) == c \in Created /\ ~gen[c].done /\ gen'[c].done

UserDeallocKept ==
    \A c \in ClassIds :
        (GenerateStep(c) /\ "tp_dealloc" \in DOMAIN classes[c].slots) =>
            /\ ItemsOf(c, "tp_dealloc")' = <<>>
            /\ \A i \in 1..Len(gen'[c].out) :
                   /\ gen'[c].out[i].kind # "tp_dealloc"
                   /\ \A j \in 1..Len(gen'[c].out[i].body) :
                          gen'[c].out[i].body[j].op \notin
                             {"tmp = self->obj", "self->obj = NULL",
                              "delete tmp", "if (tmp) tmp->decref()",
                              "PyObject_DEL(self)"}
            /\ Len(TypeStructures(c)') = 1
            /\ TypeStructures(c)'[1].fields["tp_dealloc"]
                   = classes[c].slots["tp_dealloc"]
            /\ classes'[c].slots["tp_dealloc"]
                   = classes[c].slots["tp_dealloc"]

\* C12: when the deallocation slot holds a user-supplied hook at the time
\* generate() runs, no destructor code is written and the type structure
\* is emitted with the user's value in the slot, in either ownership mode
\* and with or without a constructor.
C12_UserDeallocSuppressesDestructor == [][UserDeallocKept]_vars

C12_Witness ==
    \E c \in Created :
        /\ gen[c].done
        /\ classes[c].slots["tp_dealloc"] = "user_dealloc"
        /\ classes[c].decref_method = "Unref"
        /\ classes[c].constructors # <<>>
        /\ gen[c].have_constructor
        /\ ItemsOf(c, "tp_dealloc") = <<>>
        /\ TypeStructures(c)[1].fields["tp_dealloc"] = "user_dealloc"

\* What generate() of class c wrote to the code sink, in order.
CodeSink(c) == SelectSeq(gen[c].out, LAMBDA it : it.dest = "code_sink")

PhaseOrder(c) ==
    LET code == CodeSink(c)
        kinds == [i \in 1..Len(code) |-> code[i].kind]
        user == classes[c].slots["tp_dealloc"] = "user_dealloc"
        n == Len(code)
        fields == code[n].fields
        decided == code[1].c # "disabled"
    IN  /\ kinds = IF user
                   THEN <<"constructor", "method_table", "type_structure">>
                   ELSE <<"constructor", "method_table", "tp_dealloc",
                          "type_structure">>
        /\ gen[c].have_constructor <=> decided
        /\ ~user =>
              /\ decided =>
                    /\ Len(code[3].body) = 4
                    /\ code[3].body[1].op = "tmp = self->obj"
              /\ ~decided => OnlyReleasesHost(code[3].body)
              /\ fields["tp_dealloc"] = code[3].a
        /\ {"tp_getset", "tp_init", "tp_methods", "tp_dealloc"}
              \subseteq DOMAIN fields
        /\ fields["tp_init"] = code[1].a
        /\ fields["tp_methods"] = code[2].a
        /\ classes[c].slots = fields

\* C13: one generate() call runs the constructor phase, the method table,
\* the destructor and the type structure in that order; the destructor is
\* written from the constructor phase's decision; the type structure is
\* filled from a slot table that already holds the getset, initializer,
\* method-table and deallocation slots, and no slot changes afterwards.
C13_GeneratePhaseOrder ==
    \A c \in Created : gen[c].done => PhaseOrder(c)

C13_Witness ==
    \E c, d \in Created :
        /\ gen[c].done /\ gen[d].done
        /\ PhaseOrder(c) /\ PhaseOrder(d)
        /\ gen[c].have_constructor /\ ~gen[d].have_constructor
        /\ Len(CodeSink(c)) = 4 /\ Len(CodeSink(d)) = 4
        /\ Len(CodeSink(c)[3].body) = 4
        /\ Len(CodeSink(d)[3].body) = 1

\* The base-type links generate() of class c wrote to the after_init block.
BaseLinks(c) ==
    SelectSeq(gen[c].out, LAMBDA it : it.kind = "tp_base")

\* C14: generate() of a descriptor with a parent writes one base-type link,
\* from the descriptor's own type symbol to its parent's; generate() of a
\* descriptor without a parent writes none.
C14_BaseLinkIsParent ==
    \A c \in Created :
        gen[c].done =>
            IF classes[c].parent = 0
            THEN BaseLinks(c) = <<>>
            ELSE /\ Len(BaseLinks(c)) = 1
                 /\ BaseLinks(c)[1].dest = "after_init"
                 /\ BaseLinks(c)[1].a = classes[c].pytypestruct
                 /\ BaseLinks(c)[1].b =
                        classes[classes[c].parent].pytypestruct

C14_Witness ==
    /\ Len(classes) = 3
    /\ \A c \in Created : gen[c].done
    /\ classes[2].parent = 1 /\ classes[3].parent = 2
    /\ BaseLinks(1) = <<>>
    /\ BaseLinks(2)[1].b = "PyC1_Type"
    /\ BaseLinks(3)[1].b = "PyC2_Type"

-----------------------------------------------------------------------------
(* Owned mode at run time: a module whose classes have no ref-count hooks, *)
(* used through by-value returns, by-pointer returns with caller-owns      *)
(* unset, pointer parameters with the transfer flag set, and adapter       *)
(* deallocation.                                                           *)

\* The registrations of a hierarchy of n owned-mode classes under one base
\* class, each with a zero-argument constructor or with none.
RECURSIVE OwnedRegistrations(_)
OwnedRegistrations(n) ==
    IF n = 0 THEN {<<>>}
    ELSE UNION {
           { LET cs1 == CppClass__init__(cs, ClassName(n), parent, None, None,
                                         atn, FALSE)
             IN  IF ctor THEN add_constructor(cs1, n, 0) ELSE cs1 :
               parent \in (IF n = 1 THEN {0} ELSE 1..(n - 1)),
               atn \in {"True", "False"},
               ctor \in BOOLEAN } :
           cs \in OwnedRegistrations(n - 1) }

InitOwned ==
    /\ \E cs \in OwnedRegistrations(RunClasses) :
          LET r == GenerateAll(cs, [c \in ClassIds |-> NotGenerated], 1) IN
          classes = r.classes /\ gen = r.gen
    /\ call = NoCall
    /\ InitRuntime

Holders(p) == {x \in DOMAIN adapters : adapters[x].live /\ adapters[x].obj = p}

\* Native code deletes an instance it owns: one it allocated itself or one
\* handed over to it, which no adapter holds.
NativeDelete ==
    /\ ~fault
    /\ \E p \in DOMAIN heap :
        /\ heap[p].st = "live"
        /\ Holders(p) = {}
        /\ heap' = [heap EXCEPT ![p] = Deleted]
        /\ last' = [op |-> "NativeDelete", cls |-> 0, flag |-> FALSE,
                    value |-> p, py |-> 0, events |-> <<>>]
    /\ UNCHANGED <<classes, call, gen, adapters, fault>>

OwnedPtrReturn == PtrReturnOf(FALSE)

OwnedPtrParam == PtrParamOf(TRUE)

NextOwned ==
    ValueReturn \/ OwnedPtrReturn \/ OwnedPtrParam \/ Dealloc \/ NativeDelete

SpecOwned == InitOwned /\ [][NextOwned]_vars

\* No two live adapters hold the same non-null pointer, every non-null
\* pointer an adapter holds is to a live instance, and a deallocation
\* deletes at most the instance its adapter held, once: a delete of an
\* instance that is already deleted is undefined behaviour.
OwnedInvariant ==
    /\ \A x, y \in DOMAIN adapters :
          (x # y /\ adapters[x].live /\ adapters[y].live
                 /\ adapters[x].obj # 0)
            => adapters[x].obj # adapters[y].obj
    /\ \A x \in DOMAIN adapters :
          (adapters[x].live /\ adapters[x].obj # 0)
            => heap[adapters[x].obj].st = "live"
    /\ last.op = "Dealloc" =>
          /\ ~fault
          /\ ~adapters[last.py].live
          /\ Len(EventsOn(last.events, "delete")) <= 1
          /\ last.value = 0 => EventsOn(last.events, "delete") = <<>>
          /\ \A i \in 1..Len(EventsOn(last.events, "delete")) :
                EventsOn(last.events, "delete")[i] = last.value
    /\ (last.op = "PtrParam" /\ ~fault) =>
          /\ adapters[last.py].obj = 0
          /\ last.value # 0 => heap[last.value].st = "live"

\* The adapter whose instance was just handed to a callee is deallocated:
\* the instance is not deleted.
TransferredNotDeleted ==
    ( /\ last.op = "PtrParam" /\ last.value # 0
      /\ last'.op = "Dealloc" /\ last'.py = last.py )
    => /\ heap'[last.value].st = "live"
       /\ EventsOn(last'.events, "delete") = <<>>

\* C15: in owned mode, over by-value returns, by-pointer returns with
\* caller-owns unset, pointer parameters with transfer set and adapter
\* deallocations, no two live adapters hold the same non-null pointer and
\* no instance is deleted twice; the deallocation of an adapter whose
\* instance was transferred to a callee does not delete that instance.
C15_OwnedNoAliasNoDoubleDelete ==
    []OwnedInvariant /\ [][TransferredNotDeleted]_vars

C15_Witness ==
    /\ last.op = "Dealloc" /\ ~fault
    /\ last.value = 0
    /\ heap[1].st = "live" /\ heap[2].st = "free"
    /\ Holders(1) = {}
    /\ \A x \in DOMAIN adapters : ~adapters[x].live

-----------------------------------------------------------------------------
(* Shared mode at run time: a module whose classes all have ref-count      *)
(* hooks, used through by-pointer returns and adapter deallocation.        *)

\* The registrations of a hierarchy of n shared-mode classes under one base
\* class: the base class names its hooks, a derived class names its own or
\* inherits its parent's; each class has a zero-argument constructor or
\* none.
RECURSIVE SharedRegistrations(_)
SharedRegistrations(n) ==
    IF n = 0 THEN {<<>>}
    ELSE UNION {
           { LET cs1 == CppClass__init__(cs, ClassName(n), parent, h[1], h[2],
                                         atn, FALSE)
             IN  IF ctor THEN add_constructor(cs1, n, 0) ELSE cs1 :
               parent \in (IF n = 1 THEN {0} ELSE 1..(n - 1)),
               h \in (IF n = 1 THEN {<<"Ref", "Unref">>}
                      ELSE {<<None, None>>, <<"Ref", "Unref">>}),
               atn \in {"True", "False"},
               ctor \in BOOLEAN } :
           cs \in SharedRegistrations(n - 1) }

InitShared ==
    /\ \E cs \in SharedRegistrations(RunClasses) :
          LET r == GenerateAll(cs, [c \in ClassIds |-> NotGenerated], 1) IN
          classes = r.classes /\ gen = r.gen
    /\ call = NoCall
    /\ InitRuntime

\* The references to an instance that native code holds: the count less one
\* for each adapter that holds the instance.
NativeRefs(h, p) == h[p].rc - Cardinality(Holders(p))

\* A by-pointer return.  With caller-owns set the callee gives the caller
\* one of its own references to the instance, so it has one to give.
SharedPtrReturn ==
    /\ ~fault
    /\ \E c \in Created, caller_owns_return \in BOOLEAN,
          p \in 0..MaxObjs, dyn \in DynTypes :
        /\ (caller_owns_return /\ p # 0 /\ heap[p].st = "live")
              => NativeRefs(heap, p) >= 1
        /\ PtrReturnAt(c, caller_owns_return, p, dyn)

\* Native code drops one of the references it holds.
NativeUnref ==
    /\ ~fault
    /\ \E p \in DOMAIN heap :
        /\ heap[p].st = "live"
        /\ NativeRefs(heap, p) >= 1
        /\ heap' = [heap EXCEPT ![p] = IF @.rc <= 1 THEN Deleted
                                       ELSE [@ EXCEPT !.rc = @ - 1]]
        /\ last' = [op |-> "NativeUnref", cls |-> 0, flag |-> FALSE,
                    value |-> p, py |-> 0, events |-> <<>>]
    /\ UNCHANGED <<classes, call, gen, adapters, fault>>

NextShared == SharedPtrReturn \/ Dealloc \/ NativeUnref

SpecShared == InitShared /\ [][NextShared]_vars

====
